---- MODULE Spec2Model ----
(***************************************************************************)
(* Model of tools/xex_ctor_finder.py: the XEX2 header parser               *)
(* (parse_xex_header), the function-pointer-table scanner                  *)
(* (find_ctors_in_pe), the literal address search                          *)
(* (search_for_specific_addresses) and the pipeline of main.               *)
(*                                                                         *)
(* A buffer is a sequence of bytes (0..255).  A 32-bit unsigned value is   *)
(* kept as the pair <<top, low>> of its top byte and its low 24 bits, so   *)
(* that values such as 0x82000000 stay inside TLC's integers; the  *)
(* order on pairs (U32Le) is the order on the 32-bit values.               *)
(***************************************************************************)
EXTENDS Integers, Sequences, FiniteSets, TLC

VARIABLES
    pc,                    \* position in main / in the function under test
    data,                  \* the input buffer (bytes)
    raised,                \* the exception that ended the run, or "none"
    reads,                 \* number of read_u32_be calls completed so far
    fields,                \* parse_xex_header: the fixed header fields read
    i,                     \* parse_xex_header: loop index of line 54
    offset,                \* parse_xex_header: record cursor (lines 52, 77)
    headers,               \* the directory: insertion-ordered <<key, entry>>
    parsed,                \* what parse_xex_header returned, or None
    hidx,                  \* main: position in headers.items() (line 212)
    entry_point,           \* main: local of line 208
    pe_offset,             \* main local / find_ctors_in_pe parameter
    base_address,          \* main local / find_ctors_in_pe parameter
    found,                 \* lines printed by search_for_specific_addresses
    potential_tables       \* list returned by find_ctors_in_pe, or None

vars == <<pc, data, raised, reads, fields, i, offset, headers, parsed, hidx,
          entry_point, pe_offset, base_address, found, potential_tables>>

None == "None"

\* ------------------------------------------------------------------ bounds
MaxRecords == 2
MaxCount == 3
MaxSegs == 3
MaxChunks == 3

\* --------------------------------------------------------- 32-bit values
U32(top, low) == <<top, low>>
U32Le(a, b) == a[1] < b[1] \/ (a[1] = b[1] /\ a[2] <= b[2])
LowByte(v) == v[2] % 256
MaskKey(v) == <<v[1], v[2] - (v[2] % 256)>>

Min(a, b) == IF a <= b THEN a ELSE b
Abs(x) == IF x < 0 THEN -x ELSE x

\* data[a:b] of Python, for 0 <= a <= b
Slice(s, a, b) == SubSeq(s, a + 1, Min(b, Len(s)))

\* struct.pack('>I', v) and struct.pack('<I', v)
pack_be(v) == <<v[1], v[2] \div 65536, (v[2] \div 256) % 256, v[2] % 256>>
pack_le(v) == <<v[2] % 256, (v[2] \div 256) % 256, v[2] \div 65536, v[1]>>

\* struct.unpack('>I', b) raises struct.error unless b holds exactly 4 bytes
Unpackable(s, off) == Len(Slice(s, off, off + 4)) = 4
read_u32_be(s, off) ==
    LET b == Slice(s, off, off + 4)
    IN  <<b[1], b[2] * 65536 + b[3] * 256 + b[4]>>

\* ------------------------------------------------------------- constants
XEX2_MAGIC == <<88, 69, 88, 50>>
XEX_HEADER_ENTRY_POINT == U32(0, 65792)
XEX_HEADER_BASE_ADDRESS == U32(0, 66049)
DEFAULT_BASE == U32(130, 0)
HEADERS_START == 24

\* ------------------------------------------------------ parse_xex_header
\* mutant: only the first three bytes are compared
BadMagic_first3(s) == Slice(s, 0, 3) # <<88, 69, 88>>

\* line 33
BadMagic(s) == Slice(s, 0, 4) # XEX2_MAGIC

\* the offsets of the five fixed fields, in reading order (lines 37-41)
FieldOffsets == <<4, 8, 12, 16, 20>>
FieldsReadable(s) == Cardinality({k \in 1..5 : Unpackable(s, FieldOffsets[k])})

\* mutant: the loop also ends, silently, where the next record leaves the buffer
MoreRecords_in_buffer(idx, count, off, s) ==
    (count[1] > 0 \/ idx < count[2]) /\ off + 8 <= Len(s)

\* range(optional_header_count): i < count, count a 32-bit value
MoreRecords(idx, count, off, s) == count[1] > 0 \/ idx < count[2]

\* mutant: the size of a sized entry is left in words
MakeEntry_size_in_words(header_id, header_data) ==
    LET key_size == LowByte(header_id)
    IN  IF key_size = 255
        THEN [type |-> "offset", offset |-> header_data, raw_id |-> header_id]
        ELSE IF key_size = 0
        THEN [type |-> "none", value |-> header_data, raw_id |-> header_id]
        ELSE IF key_size = 1
        THEN [type |-> "inline", value |-> header_data, raw_id |-> header_id]
        ELSE [type |-> "sized", size |-> key_size, offset |-> header_data,
              raw_id |-> header_id]

\* lines 61-75: the entry stored for one record
MakeEntry(header_id, header_data) ==
    LET key_size == LowByte(header_id)
    IN  IF key_size = 255
        THEN [type |-> "offset", offset |-> header_data, raw_id |-> header_id]
        ELSE IF key_size = 0
        THEN [type |-> "none", value |-> header_data, raw_id |-> header_id]
        ELSE IF key_size = 1
        THEN [type |-> "inline", value |-> header_data, raw_id |-> header_id]
        ELSE [type |-> "sized", size |-> key_size * 4, offset |-> header_data,
              raw_id |-> header_id]

\* mutant: every record adds an entry, a repeated key included
DictSet_append(d, k, e) == Append(d, <<k, e>>)

\* headers[key_id] = entry on an insertion-ordered dict
DictSet(d, k, e) ==
    IF \E n \in 1..Len(d) : d[n][1] = k
    THEN [n \in 1..Len(d) |-> IF d[n][1] = k THEN <<k, e>> ELSE d[n]]
    ELSE Append(d, <<k, e>>)

HasField(e, f) == f \in DOMAIN e

\* line 33-34
ParseMagicBad ==
    /\ pc = "parse_magic"
    /\ BadMagic(data)
    /\ raised' = "ValueError"
    /\ pc' = "exit"
    /\ UNCHANGED <<data, reads, fields, i, offset, headers, parsed, hidx,
                   entry_point, pe_offset, base_address, found, potential_tables>>

ParseMagicOk ==
    /\ pc = "parse_magic"
    /\ ~BadMagic(data)
    /\ pc' = "parse_fields"
    /\ UNCHANGED <<data, raised, reads, fields, i, offset, headers, parsed, hidx,
                   entry_point, pe_offset, base_address, found, potential_tables>>

\* lines 37-41 (and 51-52): the five fixed fields; the first unreadable one raises
ParseFields ==
    /\ pc = "parse_fields"
    /\ reads' = reads + FieldsReadable(data)
    /\ IF FieldsReadable(data) = 5
       THEN /\ fields' = [module_flags |-> read_u32_be(data, 4),
                          pe_data_offset |-> read_u32_be(data, 8),
                          reserved |-> read_u32_be(data, 12),
                          security_info_offset |-> read_u32_be(data, 16),
                          optional_header_count |-> read_u32_be(data, 20)]
            /\ headers' = <<>>
            /\ offset' = HEADERS_START
            /\ i' = 0
            /\ pc' = "parse_loop"
            /\ UNCHANGED raised
       ELSE /\ raised' = "struct.error"
            /\ pc' = "exit"
            /\ UNCHANGED <<fields, headers, offset, i>>
    /\ UNCHANGED <<data, parsed, hidx, entry_point, pe_offset, base_address,
                   found, potential_tables>>

\* lines 54-77: one iteration of the record loop
ParseRecord ==
    /\ pc = "parse_loop"
    /\ MoreRecords(i, fields.optional_header_count, offset, data)
    /\ IF Unpackable(data, offset) /\ Unpackable(data, offset + 4)
       THEN LET header_id == read_u32_be(data, offset)
                header_data == read_u32_be(data, offset + 4)
            IN  /\ headers' = DictSet(headers, MaskKey(header_id),
                                      MakeEntry(header_id, header_data))
                /\ reads' = reads + 2
                /\ offset' = offset + 8
                /\ i' = i + 1
                /\ UNCHANGED <<pc, raised>>
       ELSE /\ reads' = reads + (IF Unpackable(data, offset) THEN 1 ELSE 0)
            /\ raised' = "struct.error"
            /\ pc' = "exit"
            /\ UNCHANGED <<headers, offset, i>>
    /\ UNCHANGED <<data, fields, parsed, hidx, entry_point, pe_offset,
                   base_address, found, potential_tables>>

\* line 79, and main's lines 205-209
ParseReturn ==
    /\ pc = "parse_loop"
    /\ ~MoreRecords(i, fields.optional_header_count, offset, data)
    /\ parsed' = <<headers, fields.pe_data_offset, fields.security_info_offset>>
    /\ pe_offset' = fields.pe_data_offset
    /\ entry_point' = None
    /\ base_address' = DEFAULT_BASE
    /\ hidx' = 1
    /\ pc' = "main_headers"
    /\ UNCHANGED <<data, raised, reads, fields, i, offset, headers, found,
                   potential_tables>>

\* main, lines 212-220: one item of headers.items()
MainHeader ==
    /\ pc = "main_headers"
    /\ hidx <= Len(headers)
    /\ LET key_id == headers[hidx][1]
           info == headers[hidx][2]
       IN  IF key_id = XEX_HEADER_ENTRY_POINT
           THEN /\ entry_point' = (IF HasField(info, "value") THEN info.value ELSE None)
                /\ IF HasField(info, "value")
                   THEN hidx' = hidx + 1 /\ UNCHANGED <<pc, raised>>
                   \* line 215: formatting None with :08X raises TypeError
                   ELSE raised' = "TypeError" /\ pc' = "exit" /\ UNCHANGED hidx
                /\ UNCHANGED base_address
           ELSE IF key_id = XEX_HEADER_BASE_ADDRESS
           THEN /\ base_address' =
                       (IF HasField(info, "value") THEN info.value ELSE DEFAULT_BASE)
                /\ hidx' = hidx + 1
                /\ UNCHANGED <<pc, raised, entry_point>>
           ELSE /\ hidx' = hidx + 1
                /\ UNCHANGED <<pc, raised, entry_point, base_address>>
    /\ UNCHANGED <<data, reads, fields, i, offset, headers, parsed, pe_offset,
                   found, potential_tables>>

MainHeadersDone ==
    /\ pc = "main_headers"
    /\ hidx > Len(headers)
    /\ pc' = "search"
    /\ UNCHANGED <<data, raised, reads, fields, i, offset, headers, parsed, hidx,
                   entry_point, pe_offset, base_address, found, potential_tables>>

\* ------------------------------------------ search_for_specific_addresses
target_addresses ==
    <<U32(130, 10094688), U32(130, 10124744), U32(130, 136444), U32(130, 131088)>>

\* bytes.find(pat): the lowest index at which pat occurs, or -1
RECURSIVE FindFrom(_, _, _)
FindFrom(s, pat, k) ==
    IF k + Len(pat) > Len(s) THEN -1
    ELSE IF SubSeq(s, k + 1, k + Len(pat)) = pat THEN k
    ELSE FindFrom(s, pat, k + 1)

\* mutant: the highest index at which pat occurs (bytes.rfind)
RECURSIVE FindBack(_, _, _)
FindBack(s, pat, k) ==
    IF k < 0 THEN -1
    ELSE IF SubSeq(s, k + 1, k + Len(pat)) = pat THEN k
    ELSE FindBack(s, pat, k - 1)

rfind(s, pat) == FindBack(s, pat, Len(s) - Len(pat))

find(s, pat) == FindFrom(s, pat, 0)

\* lines 173-185: the lines printed, as <<target, byte order, position>>
RECURSIVE SearchTargets(_, _, _)
SearchTargets(s, k, out) ==
    IF k > Len(target_addresses) THEN out
    ELSE LET target == target_addresses[k]
             pos_be == find(s, pack_be(target))
             pos_le == find(s, pack_le(target))
             out1 == IF pos_be # -1 THEN Append(out, <<target, "BE", pos_be>>) ELSE out
             out2 == IF pos_le # -1 THEN Append(out1, <<target, "LE", pos_le>>) ELSE out1
         IN  SearchTargets(s, k + 1, out2)

search_for_specific_addresses(s) == SearchTargets(s, 1, <<>>)

\* main, line 223
Search ==
    /\ pc = "search"
    /\ found' = search_for_specific_addresses(data)
    /\ pc' = "find_ctors"
    /\ UNCHANGED <<data, raised, reads, fields, i, offset, headers, parsed, hidx,
                   entry_point, pe_offset, base_address, potential_tables>>

\* ------------------------------------------------------- find_ctors_in_pe
SCAN_WINDOW == 1048576
RUN_WINDOW == 8000
PROXIMITY == 32
MIN_RUN == 4
SEED_VALID == 3

\* lines 120 and 137: the range test on one word (base_address is not consulted)
IsCodeAddress(val, base) == U32Le(U32(130, 0), val) /\ U32Le(val, U32(130, 16777215))

IsTerminator(val) == val = U32(0, 0) \/ val = U32(255, 16777215)

\* lines 134-142: the run counted from check_off, reading offsets below stop
RECURSIVE CountRun(_, _, _, _, _)
CountRun(s, base, check_off, stop, count) ==
    IF check_off >= stop THEN count
    ELSE LET val == read_u32_be(s, check_off)
         IN  IF IsCodeAddress(val, base) \/ IsTerminator(val)
             THEN IF IsTerminator(val) THEN count + 1
                  ELSE CountRun(s, base, check_off + 4, stop, count + 1)
             ELSE count

\* line 135: range(scan_offset, min(len(data) - 4, scan_offset + 8000), 4)
RunStop(s, scan_offset) == Min(Len(s) - 4, scan_offset + RUN_WINDOW)

\* mutant: a proximity threshold of 16 bytes
AlreadyFound_16(tables, scan_offset) ==
    \E n \in 1..Len(tables) : Abs(tables[n].offset - scan_offset) < 16

\* lines 126-130
AlreadyFound(tables, scan_offset) ==
    \E n \in 1..Len(tables) : Abs(tables[n].offset - scan_offset) < PROXIMITY

\* lines 114-121
Lookahead(s, scan_offset) == [j \in 1..4 |-> read_u32_be(s, scan_offset + (j - 1) * 4)]
ValidCount(s, base, scan_offset) ==
    Cardinality({j \in 1..4 : IsCodeAddress(Lookahead(s, scan_offset)[j], base)})

\* lines 112-149: the sweep from scan_offset, reading offsets below stop
RECURSIVE ScanLoop(_, _, _, _, _)
ScanLoop(s, base, scan_offset, stop, tables) ==
    IF scan_offset >= stop THEN tables
    ELSE LET count == CountRun(s, base, scan_offset, RunStop(s, scan_offset), 0)
             keep == /\ ValidCount(s, base, scan_offset) >= SEED_VALID
                     /\ ~AlreadyFound(tables, scan_offset)
                     /\ count >= MIN_RUN
             next == IF keep
                     THEN Append(tables, [offset |-> scan_offset, count |-> count,
                                          first_values |-> Lookahead(s, scan_offset)])
                     ELSE tables
         IN  ScanLoop(s, base, scan_offset + 4, stop, next)

\* line 112: range(pe_offset, min(len(data) - 16, pe_offset + 0x100000), 4);
\* a start offset of 2^24 or more lies beyond every buffer of the model
find_ctors_in_pe(s, pe, base) ==
    IF pe[1] > 0 THEN <<>>
    ELSE ScanLoop(s, base, pe[2], Min(Len(s) - 16, pe[2] + SCAN_WINDOW), <<>>)

\* main, line 226 (lines 229-253 only print)
FindCtors ==
    /\ pc = "find_ctors"
    /\ potential_tables' = find_ctors_in_pe(data, pe_offset, base_address)
    /\ pc' = "done"
    /\ UNCHANGED <<data, raised, reads, fields, i, offset, headers, parsed, hidx,
                   entry_point, pe_offset, base_address, found>>

\* ------------------------------------------------------------ inputs
SeqsUpTo(S, n) == UNION {[1..k -> S] : k \in 0..n}

RECURSIVE Flatten(_)
Flatten(ss) == IF ss = <<>> THEN <<>> ELSE Head(ss) \o Flatten(Tail(ss))

Start(at, d, pe, base) ==
    /\ pc = at
    /\ data = d
    /\ raised = "none"
    /\ reads = 0
    /\ fields = None
    /\ i = 0
    /\ offset = 0
    /\ headers = <<>>
    /\ parsed = None
    /\ hidx = 0
    /\ entry_point = None
    /\ pe_offset = pe
    /\ base_address = base
    /\ found = None
    /\ potential_tables = None

\* files handed to main: a header with the right or a wrong magic, a declared
\* record count, some records, cut at several lengths
Magics == {XEX2_MAGIC, <<88, 69, 88, 49>>}
RecordIds ==
    {XEX_HEADER_ENTRY_POINT, XEX_HEADER_BASE_ADDRESS, U32(0, 66055), U32(0, 66559),
     U32(0, 66047), U32(0, 131330), U32(0, 131582)}
RecordChoices ==
    {<<id, U32(131, 0)>> : id \in RecordIds}
        \cup {<<XEX_HEADER_BASE_ADDRESS, U32(130, 1048576)>>}
RecordBytes(r) == pack_be(r[1]) \o pack_be(r[2])
FileBytes(magic, n, recs) ==
    magic \o pack_be(U32(0, 0)) \o pack_be(U32(0, HEADERS_START)) \o pack_be(U32(0, 0))
          \o pack_be(U32(0, 0)) \o pack_be(U32(0, n))
          \o Flatten([k \in 1..Len(recs) |-> RecordBytes(recs[k])])
KeepLens(n) == {n, n - 1, n - 4, 0, 3, 4, 22}

Init ==
    \E magic \in Magics, n \in 0..MaxCount, recs \in SeqsUpTo(RecordChoices, MaxRecords) :
        \E keep \in KeepLens(Len(FileBytes(magic, n, recs))) :
            Start("parse_magic", Slice(FileBytes(magic, n, recs), 0, keep), None, None)

Next ==
    \/ ParseMagicBad
    \/ ParseMagicOk
    \/ ParseFields
    \/ ParseRecord
    \/ ParseReturn
    \/ MainHeader
    \/ MainHeadersDone
    \/ Search
    \/ FindCtors

Spec == Init /\ [][Next]_vars

\* buffers handed to find_ctors_in_pe: runs of equal words, then a few odd bytes
PointerWord == U32(130, 16)
OtherWords == {U32(0, 0), U32(255, 16777215), U32(131, 16)}
Segment(w, n) == [k \in 1..(4 * n) |-> pack_be(w)[((k - 1) % 4) + 1]]
Segments ==
    {Segment(PointerWord, n) : n \in {1, 3, 4, 6}}
        \cup {Segment(w, n) : w \in OtherWords, n \in {1, 4}}
ScanStarts == {U32(0, 0), U32(0, 4)}
ScanTails == {<<>>, <<85, 85>>}
ScanBases == {DEFAULT_BASE, U32(131, 0)}

InitScan ==
    \E segs \in SeqsUpTo(Segments, MaxSegs), tail \in ScanTails, base \in ScanBases,
       start \in ScanStarts :
        Start("find_ctors", Flatten(segs) \o tail, start, base)

NextScan == FindCtors

SpecScan == InitScan /\ [][NextScan]_vars

\* buffers handed to search_for_specific_addresses: encodings of the targets
\* and single bytes, in any order
Chunks ==
    {pack_be(target_addresses[k]) : k \in 1..Len(target_addresses)}
        \cup {pack_le(target_addresses[k]) : k \in 1..Len(target_addresses)}
        \cup {<<130>>, <<0>>}

InitLocate ==
    \E chunks \in SeqsUpTo(Chunks, MaxChunks) :
        Start("search", Flatten(chunks), None, None)

NextLocate == Search

SpecLocate == InitLocate /\ [][NextLocate]_vars

\* ====================================================== parse_xex_header
MagicMismatch == Len(data) < 4 \/ \E k \in 1..4 : data[k] # XEX2_MAGIC[k]

\* the k-th directory record of the buffer (k from 0), as the two words at 0x18 + 8k
RecordId(k) == read_u32_be(data, 24 + 8 * k)
RecordWord(k) == read_u32_be(data, 28 + 8 * k)
KeyOf(id) == <<id[1], (id[2] \div 256) * 256>>

\* C1: a buffer whose first 4 bytes are not 'XEX2' (a buffer shorter than 4 bytes
\* included) ends parse_xex_header with the format error (ValueError); no header
\* field and no directory record is read, and nothing is returned.
C1_BadMagicFails ==
    MagicMismatch =>
        /\ pc \in {"parse_magic", "exit"}
        /\ pc = "exit" => raised = "ValueError"
        /\ reads = 0
        /\ fields = None
        /\ headers = <<>>
        /\ parsed = None

C1_Witness ==
    /\ MagicMismatch
    /\ Len(data) >= 32
    /\ pc = "exit"
    /\ raised = "ValueError"

\* the declared count makes some record extend past the buffer end:
\* 0x18 + 8 * N > len(buffer), N the word at 0x14 (any N when the buffer is too
\* short to hold it)
CountOverruns ==
    /\ ~MagicMismatch
    /\ \/ Len(data) < 24
       \/ read_u32_be(data, 20)[1] > 0
       \/ 24 + 8 * read_u32_be(data, 20)[2] > Len(data)

\* C2: with valid magic and a declared count that overruns the buffer,
\* parse_xex_header never returns: it ends with the read error of the first
\* incomplete word (struct.error), having read every complete word before it; it
\* does not stop silently at the buffer end.
C2_OverrunRaises ==
    CountOverruns =>
        /\ parsed = None
        /\ pc \in {"parse_magic", "parse_fields", "parse_loop", "exit"}
        /\ pc = "exit" => raised = "struct.error" /\ reads = (Len(data) \div 4) - 1

C2_Witness ==
    /\ CountOverruns
    /\ pc = "exit"
    /\ raised = "struct.error"
    /\ i >= 1
    /\ Len(headers) = i

\* the entry the claim describes for a record (identifier, associated)
KindOf(id) ==
    CASE id[2] % 256 = 0 -> "none"
      [] id[2] % 256 = 1 -> "inline"
      [] id[2] % 256 = 255 -> "offset"
      [] OTHER -> "sized"

IsEntryFor(e, id, word) ==
    /\ e.type = KindOf(id)
    /\ KindOf(id) \in {"none", "inline"} => e.value = word
    /\ KindOf(id) \in {"offset", "sized"} => e.offset = word
    /\ KindOf(id) = "sized" => e.size = (id[2] % 256) * 4
    /\ KindOf(id) = "sized" <=> "size" \in DOMAIN e

\* C3: the record just read is stored under identifier & 0xFFFFFF00, with the
\* kind its low byte gives: 0x00 none (value), 0x01 inline (value), 0xFF offset
\* (offset), any other k sized with size k*4 (offset).
C3_EntryKind ==
    i >= 1 =>
        \E n \in 1..Len(headers) :
            /\ headers[n][1] = KeyOf(RecordId(i - 1))
            /\ IsEntryFor(headers[n][2], RecordId(i - 1), RecordWord(i - 1))

C3_Witness ==
    /\ i = 2
    /\ KindOf(RecordId(0)) = "sized"
    /\ RecordId(0)[2] % 256 = 7
    /\ \E n \in 1..Len(headers) : headers[n][2].type = "sized" /\ headers[n][2].size = 28
    /\ KindOf(RecordId(1)) = "offset"

DeclaredCount == read_u32_be(data, 20)[2]

\* C4 as claimed: after a successful parse the directory has exactly as many
\* entries as the declared optional-header count.
C4_SizeIsCount == parsed # None => Len(parsed[1]) = DeclaredCount

\* C4, amended: after a successful parse exactly the declared N records have been
\* read from 0x18 in 8-byte steps, and the directory holds one entry per
\* distinct masked key among them, each the entry of the last record with that
\* key (N entries when the keys are pairwise distinct, fewer otherwise).
C4_SizeIsDistinctKeys ==
    parsed # None =>
        /\ reads = 5 + 2 * DeclaredCount
        /\ offset = 24 + 8 * DeclaredCount
        /\ Len(parsed[1]) = Cardinality({KeyOf(RecordId(k)) : k \in 0..(DeclaredCount - 1)})
        /\ \A k \in 0..(DeclaredCount - 1) :
              (\A m \in (k + 1)..(DeclaredCount - 1) : KeyOf(RecordId(m)) # KeyOf(RecordId(k)))
                  => \E n \in 1..Len(parsed[1]) :
                        /\ parsed[1][n][1] = KeyOf(RecordId(k))
                        /\ parsed[1][n][2].raw_id = RecordId(k)

C4_Witness ==
    /\ parsed # None
    /\ DeclaredCount = 2
    /\ Len(parsed[1]) = 1
    /\ RecordId(0) # RecordId(1)
    /\ parsed[1][1][2].raw_id = RecordId(1)

\* ================================================================== main
\* C10: when the directory holds an entry whose raw identifier is
\* XEX_HEADER_BASE_ADDRESS, with value B, find_ctors_in_pe is handed B; it is
\* handed the default 0x82000000 only when there is no such entry.
C10_BaseAddressHanded ==
    pc \in {"find_ctors", "done"} /\ parsed # None =>
        /\ \A n \in 1..Len(headers) :
              headers[n][2].raw_id = XEX_HEADER_BASE_ADDRESS
                  => base_address = headers[n][2].value
        /\ (\A n \in 1..Len(headers) : headers[n][2].raw_id # XEX_HEADER_BASE_ADDRESS)
               => base_address = DEFAULT_BASE

\* ====================================================== find_ctors_in_pe
\* the cursor positions of the sweep, the words of the buffer they see
Cursors == {c \in 0..(Len(data) - 17) : c % 4 = pe_offset[2] % 4 /\ c >= pe_offset[2]}
InBaseRange(v, base) == U32Le(base, v) /\ U32Le(v, U32(base[1], 16777215))
Returned(c) == \E n \in 1..Len(potential_tables) : potential_tables[n].offset = c
IsSeed(c) == ValidCount(data, base_address, c) >= 3
Qualifies(c) ==
    IsSeed(c) /\ CountRun(data, base_address, c, RunStop(data, c), 0) >= 4

\* C5: a word v is treated as a plausible code address exactly when
\* base_address <= v <= (base_address | 0x00FFFFFF), for the base address the
\* scan was given.
C5_PlausibleFollowsBase ==
    pc = "done" =>
        \A c \in Cursors : \A j \in 0..3 :
            IsCodeAddress(read_u32_be(data, c + 4 * j), base_address)
                <=> InBaseRange(read_u32_be(data, c + 4 * j), base_address)

\* the buffers of C6: exactly n >= 4 words in [0x82000000, 0x82FFFFFF], then one
\* zero word
PlausibleRunThenZero(n) ==
    /\ n >= 4
    /\ Len(data) = 4 * (n + 1)
    /\ \A k \in 0..(n - 1) : InBaseRange(read_u32_be(data, 4 * k), DEFAULT_BASE)
    /\ read_u32_be(data, 4 * n) = U32(0, 0)

\* C6: on n >= 4 plausible words followed by one zero word, the scan from
\* offset 0 with base 0x82000000 returns exactly one candidate, at offset 0, with
\* entry count n + 1.
C6_RunPlusTerminator ==
    pc = "done" /\ pe_offset = U32(0, 0) /\ base_address = DEFAULT_BASE =>
        \A n \in 4..(Len(data) \div 4) :
            PlausibleRunThenZero(n) =>
                /\ Len(potential_tables) = 1
                /\ potential_tables[1].offset = 0
                /\ potential_tables[1].count = n + 1

\* C7 as claimed: of two seeds whose runs reach 4, less than 32 bytes apart, only
\* the earlier is returned; 40 bytes apart, both are returned; no two returned
\* candidates are less than 32 bytes apart.
C7_PairwiseDedup ==
    pc = "done" =>
        /\ \A a \in Cursors : \A b \in Cursors :
              Qualifies(a) /\ Qualifies(b) /\ a < b =>
                  /\ b - a < 32 => Returned(a) /\ ~Returned(b)
                  /\ b - a = 40 => Returned(a) /\ Returned(b)
        /\ \A a \in Cursors : \A b \in Cursors :
              Returned(a) /\ Returned(b) /\ a # b => Abs(a - b) >= 32

\* C7, amended: a seed whose run reaches 4 is returned exactly when no candidate
\* returned before it lies less than 32 bytes from it.  So when the earlier of
\* two such seeds is returned, the later is dropped if it is less than 32 bytes
\* away, and returned if it is 40 bytes away and no other returned candidate
\* is within 32 bytes of it; no two returned candidates are less than 32 bytes
\* apart, and nothing else is returned.
C7_DedupAgainstReturned ==
    pc = "done" =>
        /\ \A b \in Cursors :
              Returned(b) <=>
                  /\ Qualifies(b)
                  /\ ~\E a \in Cursors : a < b /\ Returned(a) /\ b - a < 32
        /\ \A n \in 1..Len(potential_tables) : potential_tables[n].offset \in Cursors
        /\ \A n \in 1..Len(potential_tables) : \A m \in 1..Len(potential_tables) :
              n # m => Abs(potential_tables[n].offset - potential_tables[m].offset) >= 32

C7_Witness ==
    /\ pc = "done"
    /\ \E a \in Cursors :
          /\ Returned(a)
          /\ a + 40 \in Cursors /\ Returned(a + 40)
          /\ \E c \in Cursors : c > a /\ c - a < 32 /\ Qualifies(c) /\ ~Returned(c)

\* the run of the claim: words counted while plausible, the first zero or
\* 0xFFFFFFFF word counted and ending it, any other word ending it uncounted,
\* at most 2000 words, over the complete words the buffer holds
RECURSIVE RunLength(_, _)
RunLength(off, n) ==
    IF n = 2000 \/ off + 4 > Len(data) THEN n
    ELSE IF IsTerminator(read_u32_be(data, off)) THEN n + 1
    ELSE IF InBaseRange(read_u32_be(data, off), base_address) THEN RunLength(off + 4, n + 1)
    ELSE n

\* C9: every candidate returned has 4 <= count <= 2000 and its count is the
\* length of the run that starts at its offset.
C9_CountIsRunLength ==
    pc = "done" /\ base_address = DEFAULT_BASE =>
        \A n \in 1..Len(potential_tables) :
            /\ potential_tables[n].count >= 4
            /\ potential_tables[n].count <= 2000
            /\ potential_tables[n].count = RunLength(potential_tables[n].offset, 0)

\* ========================================== search_for_specific_addresses
Occurrences(enc) ==
    {p \in 0..(Len(data) - 4) : \A j \in 1..4 : data[p + j] = enc[j]}
Reports(t, order) == {n \in 1..Len(found) : found[n][1] = t /\ found[n][2] = order}
Lowest(S) == CHOOSE p \in S : \A q \in S : p <= q
ReportedRight(t, order, enc) ==
    IF Occurrences(enc) = {}
    THEN Reports(t, order) = {}
    ELSE /\ Cardinality(Reports(t, order)) = 1
         /\ \A n \in Reports(t, order) : found[n][3] = Lowest(Occurrences(enc))

\* C8: for each target and each byte order a match is reported exactly when the
\* 4-byte encoding occurs in the buffer, once, at the lowest offset at which it
\* occurs; an absent encoding gives no entry and no error.
C8_FirstOccurrenceOnly ==
    pc = "find_ctors" =>
        /\ raised = "none"
        /\ \A k \in 1..Len(target_addresses) :
              /\ ReportedRight(target_addresses[k], "BE", pack_be(target_addresses[k]))
              /\ ReportedRight(target_addresses[k], "LE", pack_le(target_addresses[k]))

C8_Witness ==
    /\ pc = "find_ctors"
    /\ Cardinality(Occurrences(pack_be(target_addresses[1]))) >= 2
    /\ Occurrences(pack_le(target_addresses[1])) # {}
    /\ Occurrences(pack_be(target_addresses[2])) = {}
    /\ Len(found) = 2
====
